---- MODULE Spec2Model ----
(***************************************************************************)
(* Model of scripts/build.py: the feed ingestion run (source health        *)
(* tracking, fetch, normalisation, filtering, expiry, reconciliation with  *)
(* the previous rolling index, and persistence of index and health table). *)
(*                                                                         *)
(* Instants are integers counting hours.  A stored timestamp (the text     *)
(* isoformat() writes) is the one-element sequence <<t>>; None and the     *)
(* empty string are <<>>.  Text is a sequence of one-character strings.    *)
(* The SHA-1 signature of "title|link|domain" is the triple itself.        *)
(*                                                                         *)
(* One pass of the source loop is one step.  The archive snapshot, the     *)
(* rendered pages and feeds, the run log and summary.json are written from *)
(* the values modelled here and read by nothing in the program; they are   *)
(* not part of the state.  A world fixes the configuration files of an     *)
(* installation and the failures its feed servers show.                    *)
(* requests, outcomes, entries and log hold what the last pass of the loop *)
(* asked of the network, got from it and logged.                           *)
(***************************************************************************)
EXTENDS Integers, Sequences, FiniteSets, TLC

\* ------------------------------------------------------------- constants
DEFAULT_TTL_DAYS == 30
FAIL_DISABLE_AFTER == 3
DISABLE_DURATION == 24

\* ---------------------------------------------------------------- bounds
MaxClock == 24
TickStep == 24
MaxEntries == 2

None == <<>>

\* ------------------------------------------------------------------ text
\* now.isoformat() / pub_dt.isoformat()
Iso(t) == <<t>>

\* dateparser.parse(s): the instant, or an exception on text that is no date
ParseFails(s) == Len(s) # 1
Parse(s) == s[1]

\* k in text
Contains(text, k) ==
    \E j \in 0..(Len(text) - Len(k)) : SubSeq(text, j + 1, j + Len(k)) = k

\* s.endswith(suf)
EndsWith(s, suf) ==
    /\ Len(suf) <= Len(s)
    /\ SubSeq(s, Len(s) - Len(suf) + 1, Len(s)) = suf

\* str.lower() on one character
LowerChar(c) ==
    IF c = "X" THEN "x" ELSE IF c = "G" THEN "g"
    ELSE IF c = "HTTP://" THEN "http://" ELSE c

Lower(s) == [j \in 1..Len(s) |-> LowerChar(s[j])]

RECURSIVE LStrip(_)
LStrip(s) == IF s # <<>> /\ Head(s) = " " THEN LStrip(Tail(s)) ELSE s

RECURSIVE RStrip(_)
RStrip(s) ==
    IF s # <<>> /\ s[Len(s)] = " " THEN RStrip(SubSeq(s, 1, Len(s) - 1)) ELSE s

\* str.strip()
Strip(s) == RStrip(LStrip(s))

\* [f(x) for x in seq if keep(x)]
RECURSIVE SelectStripped(_)
SelectStripped(lines) ==
    IF lines = <<>> THEN <<>>
    ELSE LET x == Strip(Head(lines))
         IN  IF x # <<>> /\ Head(x) # "#"
             THEN <<x>> \o SelectStripped(Tail(lines))
             ELSE SelectStripped(Tail(lines))

\* A file is [exists |-> BOOLEAN, lines |-> sequence of lines].
MissingFile == [exists |-> FALSE, lines |-> <<>>]
TextFile(ls) == [exists |-> TRUE, lines |-> ls]

read_lines(p) == IF ~p.exists THEN <<>> ELSE SelectStripped(p.lines)

Range(s) == {s[j] : j \in 1..Len(s)}

load_rules(wf, bf, pf) ==
    [whitelist |-> Range(read_lines(wf)),
     blacklist |-> Range(read_lines(bf)),
     persistent_domains |-> Range(read_lines(pf))]

load_sources(cf, sf) == <<read_lines(cf), read_lines(sf)>>

\* A URL is its scheme (one token) followed by the characters after it.
RECURSIVE HostChars(_)
HostChars(s) ==
    IF s = <<>> \/ Head(s) = "/" THEN <<>> ELSE <<Head(s)>> \o HostChars(Tail(s))

domain_of(url) ==
    LET u == Strip(url)
    IN  IF /\ u # <<>>
           /\ LowerChar(Head(u)) \in {"http://", "https://"}
           /\ HostChars(Tail(u)) # <<>>
        THEN Lower(HostChars(Tail(u)))
        ELSE <<>>

\* ----------------------------------------------------------------- items
\* a or b
Or(a, b) == IF a # <<>> THEN a ELSE b

IsTag(c) == c \in {"<b>", "</b>"}

RECURSIVE DropTags(_)
DropTags(s) ==
    IF s = <<>> THEN <<>>
    ELSE IF IsTag(Head(s)) THEN DropTags(Tail(s))
    ELSE <<Head(s)>> \o DropTags(Tail(s))

\* BeautifulSoup(s or "", "lxml").get_text(" ", strip=True)
html_to_text(s) == Strip(DropTags(s))

\* html.unescape
Unescape(s) == [j \in 1..Len(s) |-> IF s[j] = "&amp;" THEN "&" ELSE s[j]]

\* A raw feed entry: every field is text, <<>> when the attribute is absent.
RawEntry(t, l, s, d, p, u) ==
    [title |-> t, link |-> l, summary |-> s, description |-> d,
     published |-> p, updated |-> u]

normalize_entry(src_url, e, now) ==
    LET title == Strip(Or(e.title, <<>>))
        link == Strip(Or(e.link, <<>>))
        summary_html == Or(e.summary, e.description)
        summary_text == Unescape(html_to_text(summary_html))
        pub_raw == Or(e.published, Or(e.updated, <<>>))
        pub_iso == IF ParseFails(pub_raw) THEN Iso(now) ELSE Iso(Parse(pub_raw))
        sdom == domain_of(src_url)
        sig == <<title, link, sdom>>
    IN  [id |-> sig,
         title |-> title,
         link |-> link,
         summary |-> summary_text,
         published |-> pub_iso,
         source |-> src_url,
         source_domain |-> sdom]

ItemText(item) == item.title \o <<" ">> \o item.summary

\* Faulty variant: a whitelist match admits the item at once.
pass_filters_WhitelistWins(item, rules) ==
    \/ \E k \in rules.whitelist : Contains(ItemText(item), k)
    \/ /\ rules.whitelist = {}
       /\ ~(\E k \in rules.blacklist : Contains(ItemText(item), k))

pass_filters(item, rules) ==
    LET text == ItemText(item)
        wl == rules.whitelist
        bl == rules.blacklist
    IN  IF wl # {} /\ ~(\E k \in wl : Contains(text, k)) THEN FALSE
        ELSE IF bl # {} /\ (\E k \in bl : Contains(text, k)) THEN FALSE
        ELSE TRUE

\* Faulty variant: only an exact match counts, a subdomain does not.
is_persistent_ExactOnly(item, rules) ==
    item.source_domain \in rules.persistent_domains

is_persistent(item, rules) ==
    LET dom == item.source_domain
    IN  \E d \in rules.persistent_domains :
            dom = d \/ EndsWith(dom, <<".">> \o d)

\* timedelta(days=DEFAULT_TTL_DAYS), in hours
Ttl == DEFAULT_TTL_DAYS * 24

\* Faulty variant: the item expires already at now - ttl.
is_expired_Inclusive(item, rules, now) ==
    IF is_persistent(item, rules) THEN FALSE
    ELSE LET pub == IF ParseFails(item.published) THEN now
                    ELSE Parse(item.published)
         IN  (now - pub) >= Ttl

is_expired(item, rules, now) ==
    IF is_persistent(item, rules) THEN FALSE
    ELSE LET ttl == Ttl
             pub == IF ParseFails(item.published) THEN now
                    ELSE Parse(item.published)
         IN  (now - pub) > ttl

\* ----------------------------------------------------------------- fetch
\* What one requests.get(...) followed by raise_for_status() does.
ReqOutcomes == {"ok", "Timeout", "HTTPError"}

\* Faulty variant: any failed request is retried, not only a timeout.
safe_request_RetryAny(r1, r2) ==
    IF r1 = "ok" THEN [ok |-> TRUE, exc |-> "", requests |-> 1]
    ELSE IF r2 = "ok" THEN [ok |-> TRUE, exc |-> "", requests |-> 2]
    ELSE [ok |-> FALSE, exc |-> r2, requests |-> 2]

\* r1, r2: the outcome of the first request and of the retry, if made.
safe_request(r1, r2) ==
    IF r1 = "ok" THEN [ok |-> TRUE, exc |-> "", requests |-> 1]
    ELSE IF r1 = "Timeout"
    THEN IF r2 = "ok" THEN [ok |-> TRUE, exc |-> "", requests |-> 2]
         ELSE [ok |-> FALSE, exc |-> r2, requests |-> 2]
    ELSE [ok |-> FALSE, exc |-> r1, requests |-> 1]

\* feed: what feedparser.parse makes of the response text.
\* The body of the try of fetch_feed (lines 113-118): what it returns, or
\* the exception that leaves it (raised, "" when none).
FetchBody(r1, r2, feed) ==
    LET resp == safe_request(r1, r2)
    IN  IF ~resp.ok
        THEN [entries |-> <<>>, err |-> "", requests |-> resp.requests,
              raised |-> resp.exc]
        ELSE IF feed.bozo /\ feed.entries = <<>>
        THEN [entries |-> <<>>, err |-> "parse error",
              requests |-> resp.requests, raised |-> ""]
        ELSE [entries |-> feed.entries, err |-> "",
              requests |-> resp.requests, raised |-> ""]

\* Faulty variant: no except clause, the exception leaves fetch_feed.
fetch_feed_NoCatch(r1, r2, feed) == FetchBody(r1, r2, feed)

\* except Exception as e: return [], "<type>: <message>" (lines 119-120)
fetch_feed(r1, r2, feed) ==
    LET body == FetchBody(r1, r2, feed)
    IN  IF body.raised # ""
        THEN [entries |-> <<>>, err |-> body.raised,
              requests |-> body.requests, raised |-> ""]
        ELSE body

\* ---------------------------------------------------------------- health
\* The health table is a function from the URLs that have a record.
NewRecord ==
    [last_success |-> None, last_error |-> None,
     consecutive_failures |-> 0, disabled_until |-> None]

\* Faulty variant: the source is still skipped at the instant disabled_until.
should_skip_Inclusive(state, url, now) ==
    /\ url \in DOMAIN state
    /\ state[url].disabled_until # None
    /\ ~ParseFails(state[url].disabled_until)
    /\ now <= Parse(state[url].disabled_until)

should_skip_by_state(state, url, now) ==
    IF url \notin DOMAIN state THEN FALSE
    ELSE LET disabled_until == state[url].disabled_until
         IN  IF disabled_until # None
             THEN LET du == IF ParseFails(disabled_until) THEN now
                            ELSE Parse(disabled_until)
                  IN  now < du
             ELSE FALSE

\* Faulty variant: a success leaves the cooldown in place.
RecordSuccess_StillDisabled(rec, now) ==
    [rec EXCEPT !.last_success = Iso(now),
                !.last_error = None,
                !.consecutive_failures = 0]

RecordSuccess(rec, now) ==
    [rec EXCEPT !.last_success = Iso(now),
                !.last_error = None,
                !.consecutive_failures = 0,
                !.disabled_until = None]

\* Faulty variant: the source is disabled one failure early.
RecordFailure_Early(rec, error_msg, now) ==
    LET failures == rec.consecutive_failures + 1
    IN  [rec EXCEPT !.last_error = <<now, error_msg>>,
                    !.consecutive_failures = failures,
                    !.disabled_until =
                        IF failures >= FAIL_DISABLE_AFTER - 1
                        THEN Iso(now + DISABLE_DURATION)
                        ELSE rec.disabled_until]

\* Faulty variant: a failure after the cooldown starts a new streak.
RecordFailure_NewStreak(rec, error_msg, now) ==
    LET failures == IF rec.disabled_until # None THEN 1
                    ELSE rec.consecutive_failures + 1
    IN  [rec EXCEPT !.last_error = <<now, error_msg>>,
                    !.consecutive_failures = failures,
                    !.disabled_until =
                        IF failures >= FAIL_DISABLE_AFTER
                        THEN Iso(now + DISABLE_DURATION)
                        ELSE None]

\* Faulty variant: the source is disabled one failure late.
RecordFailure_Late(rec, error_msg, now) ==
    LET failures == rec.consecutive_failures + 1
    IN  [rec EXCEPT !.last_error = <<now, error_msg>>,
                    !.consecutive_failures = failures,
                    !.disabled_until =
                        IF failures > FAIL_DISABLE_AFTER
                        THEN Iso(now + DISABLE_DURATION)
                        ELSE rec.disabled_until]

RecordFailure(rec, error_msg, now) ==
    LET failures == rec.consecutive_failures + 1
    IN  [rec EXCEPT !.last_error = <<now, error_msg>>,
                    !.consecutive_failures = failures,
                    !.disabled_until =
                        IF failures >= FAIL_DISABLE_AFTER
                        THEN Iso(now + DISABLE_DURATION)
                        ELSE rec.disabled_until]

update_state_on_result(state, url, ok, error_msg, now) ==
    LET rec == IF url \in DOMAIN state THEN state[url] ELSE NewRecord
        new == IF ok THEN RecordSuccess(rec, now)
               ELSE RecordFailure(rec, error_msg, now)
    IN  [u \in DOMAIN state \cup {url} |-> IF u = url THEN new ELSE state[u]]

\* -------------------------------------------------------- reconciliation
Ids(s) == {s[j].id : j \in 1..Len(s)}

\* The last element of s with the given id.
LastWithId(s, id) ==
    s[CHOOSE j \in 1..Len(s) :
        /\ s[j].id = id
        /\ \A k \in (j + 1)..Len(s) : s[k].id # id]

RECURSIVE FirstPositions(_, _)
FirstPositions(s, seen) ==
    IF s = <<>> THEN <<>>
    ELSE IF Head(s).id \in seen THEN FirstPositions(Tail(s), seen)
    ELSE <<Head(s).id>> \o FirstPositions(Tail(s), seen \cup {Head(s).id})

\* Faulty variant: no deduplication.
Dedup_None(s) == s

\* list({it["id"]: it for it in s}.values()): a key keeps the position of its
\* first insertion and the value of its last.
Dedup(s) ==
    LET keys == FirstPositions(s, {})
    IN  [j \in 1..Len(keys) |-> LastWithId(s, keys[j])]

RECURSIVE Filter(_, _, _)
Filter(s, rules, now) ==
    IF s = <<>> THEN <<>>
    ELSE IF ~is_expired(Head(s), rules, now)
    THEN <<Head(s)>> \o Filter(Tail(s), rules, now)
    ELSE Filter(Tail(s), rules, now)

\* for pid, pit in prev_map.items(): append pit when its id is not alive
\* and it is not expired
RECURSIVE CarryForward(_, _, _, _)
CarryForward(alive, prev_map, rules, now) ==
    IF prev_map = <<>> THEN alive
    ELSE LET pit == Head(prev_map)
         IN  IF pit.id \notin Ids(alive) /\ ~is_expired(pit, rules, now)
             THEN CarryForward(Append(alive, pit), Tail(prev_map), rules, now)
             ELSE CarryForward(alive, Tail(prev_map), rules, now)

\* The sort key x.get("published", ""): isoformat text of UTC instants
\* orders as the instants do.
SortKey(it) == Parse(it.published)

RECURSIVE InsertDesc(_, _)
InsertDesc(sorted, it) ==
    IF sorted = <<>> THEN <<it>>
    ELSE IF SortKey(Head(sorted)) >= SortKey(it)
    THEN <<Head(sorted)>> \o InsertDesc(Tail(sorted), it)
    ELSE <<it>> \o sorted

\* list.sort(key=..., reverse=True): stable, descending
RECURSIVE SortDesc(_)
SortDesc(s) ==
    IF s = <<>> THEN <<>>
    ELSE InsertDesc(SortDesc(SubSeq(s, 1, Len(s) - 1)), s[Len(s)])

\* Faulty variant: the candidates are not checked for expiry.
Reconcile_KeepExpired(items, prev, rules, nowt) ==
    SortDesc(CarryForward(items, Dedup(prev), rules, nowt))

\* Faulty variant: the previous items are not checked for expiry.
Reconcile_CarryExpired(items, prev, rules, nowt) ==
    LET kept == Filter(items, rules, nowt)
        NotKept(x) == x.id \notin Ids(kept)
    IN  SortDesc(kept \o SelectSeq(Dedup(prev), NotKept))

\* Faulty variant: nothing of the previous index is carried forward.
Reconcile_NoCarry(items, prev, rules, nowt) ==
    SortDesc(Filter(items, rules, nowt))

\* (the list is bound as a value before alive.sort is applied to it)
Reconcile(items, prev, rules, nowt) ==
    LET alive == Filter(items, rules, nowt)
        prev_map == Dedup(prev)
        merged == {CarryForward(alive, prev_map, rules, nowt)}
    IN  CHOOSE sorted \in {SortDesc(m) : m \in merged} : TRUE

\* ------------------------------------------------------------ the inputs
UrlA == <<"http://", "x", "g", "/", "f">>
UrlB == <<"HTTP://", "X", ".", "g", "/", "f">>
Urls == {UrlA, UrlB}

\* An installation: its configuration files and what its feed servers do.
Worlds == {"outage", "rules", "exact", "filter"}

\* rules/whitelist.txt, rules/blacklist.txt, rules/persistent_domains.txt
RuleFilesOf(w) ==
    IF w = "outage" THEN <<MissingFile, MissingFile, MissingFile>>
    ELSE IF w = "rules"
    THEN <<TextFile(<<<<"k">>, <<>>, <<"l", " ">>>>),
           TextFile(<<<<"#", "l">>, <<" ", "s">>>>),
           TextFile(<<<<"g">>>>)>>
    ELSE IF w = "exact"
    THEN <<MissingFile,
           TextFile(<<<<"#">>>>),
           TextFile(<<<<"x", ".", "g">>, <<"g", ".", "x">>>>)>>
    ELSE <<TextFile(<<<<" ">>>>),
           TextFile(<<<<"s">>>>),
           TextFile(<<>>)>>

\* sources/core.txt and sources/secondary.txt
CoreFileOf(w) == TextFile(<<UrlA, UrlB \o <<" ">>>>)
SecondaryFileOf(w) ==
    IF w = "exact" THEN TextFile(<<<<"#", "x">>, UrlB, <<" ">>, UrlB>>)
    ELSE MissingFile

\* What one requests.get(...) followed by raise_for_status() may do.
OutcomesOf(w, url) ==
    IF w = "outage" /\ url = UrlA THEN ReqOutcomes
    ELSE IF w = "exact" /\ url = UrlB THEN {"ok", "HTTPError"}
    ELSE {"ok"}

Link == <<"l">>

EntryA1 == RawEntry(<<"c", "l">>, Link, <<>>, <<>>, Iso(0 - 80), <<>>)
EntryA2 == RawEntry(<<"c", "l", " ">>, Link, <<>>, <<"<b>", "s">>, <<>>, Iso(0 - Ttl))
EntryB1 == RawEntry(<<"o", "k">>, Link, <<>>, <<>>, Iso(0 - Ttl - 1), <<>>)

\* The entries a feed of each source may carry.
EntriesOf(w, url) ==
    IF url = UrlB THEN {EntryB1}
    ELSE IF w = "outage" THEN {EntryA2}
    ELSE {EntryA1, EntryA2}

SeqsUpTo(S, k) == UNION {[1..m -> S] : m \in 0..k}

NoFeed == [bozo |-> FALSE, entries |-> <<>>]

\* What feedparser.parse may make of a response.
Feeds(w, url) ==
    {[bozo |-> b, entries |-> es] :
        b \in (IF w = "outage" THEN BOOLEAN ELSE {FALSE}),
        es \in SeqsUpTo(EntriesOf(w, url), MaxEntries)}

\* ------------------------------------------------------------- the state
VARIABLES
    world,      \* the installation
    clock,      \* what now_utc() returns
    indexFile,  \* data/latest/index.json
    stateFile,  \* state/sources.json
    pc,         \* where main() is; "idle" between runs
    exit,       \* how the last run ended
    rules, sources, state, items, i, n, requests, prev, nowt, alive,
    log,        \* the last line main() logged, as <<kind, url>>
    outcomes,   \* what the requests of the last pass of the loop did
    entries     \* the entries the last pass of the loop got

vars == <<world, clock, indexFile, stateFile, pc, exit,
          rules, sources, state, items, i, n, requests, prev, nowt, alive, log,
          outcomes, entries>>

files == <<indexFile, stateFile>>
locals == <<rules, sources, state, items, i, n, requests, prev, nowt, alive, log,
            outcomes, entries>>

\* A JSON document on disk: absent, complete, or cut short.
NoDoc == [kind |-> "missing", val |-> <<>>]
Doc(v) == [kind |-> "ok", val |-> v]
TornDoc == [kind |-> "torn", val |-> <<>>]

EmptyState == [u \in {} |-> NewRecord]
EmptyRules == [whitelist |-> {}, blacklist |-> {}, persistent_domains |-> {}]

NoLocals ==
    /\ rules = EmptyRules
    /\ sources = <<>>
    /\ state = EmptyState
    /\ items = <<>>
    /\ i = 0
    /\ n = 0
    /\ requests = 0
    /\ prev = <<>>
    /\ nowt = 0
    /\ alive = <<>>
    /\ log = <<>>
    /\ outcomes = <<>>
    /\ entries = <<>>

\* The process ends: nothing of its memory is left.
DropLocals ==
    /\ rules' = EmptyRules
    /\ sources' = <<>>
    /\ state' = EmptyState
    /\ items' = <<>>
    /\ i' = 0
    /\ n' = 0
    /\ requests' = 0
    /\ prev' = <<>>
    /\ nowt' = 0
    /\ alive' = <<>>
    /\ log' = <<>>
    /\ outcomes' = <<>>
    /\ entries' = <<>>

Init ==
    /\ world \in Worlds
    /\ clock = 0
    /\ indexFile = NoDoc
    /\ stateFile = NoDoc
    /\ pc = "idle"
    /\ exit = "none"
    /\ NoLocals

\* ----------------------------------------------------------- the actions
\* Time passes; now_utc() is read at lines 240 and 274.
Tick ==
    /\ pc \in {"idle", "loop"}
    /\ clock + TickStep <= MaxClock
    /\ clock' = clock + TickStep
    /\ UNCHANGED <<world, files, pc, exit, locals>>

\* json.loads of the health table, {} when there is no file (lines 230-233)
LoadState(doc) == IF doc.kind = "ok" THEN doc.val ELSE EmptyState

\* main(), lines 220-237
StartRun ==
    /\ pc = "idle"
    /\ stateFile.kind # "torn"
    /\ \E run_group \in {"core", "secondary"} :
        LET rf == RuleFilesOf(world)
            lists == load_sources(CoreFileOf(world), SecondaryFileOf(world))
        IN  /\ rules' = load_rules(rf[1], rf[2], rf[3])
            /\ sources' = IF run_group = "core" THEN lists[1] ELSE lists[2]
    /\ state' = LoadState(stateFile)
    /\ items' = <<>>
    /\ i' = 1
    /\ pc' = "loop"
    /\ exit' = "running"
    /\ UNCHANGED <<world, clock, files, n, requests, prev, nowt, alive, log,
                   outcomes, entries>>

\* for e in entries: normalize_entry, pass_filters, items.append (lines 257-260)
RECURSIVE Admitted(_, _, _, _)
Admitted(url, es, rs, now) ==
    IF es = <<>> THEN <<>>
    ELSE LET it == normalize_entry(url, Head(es), now)
         IN  IF pass_filters(it, rs)
             THEN <<it>> \o Admitted(url, Tail(es), rs, now)
             ELSE Admitted(url, Tail(es), rs, now)

\* An exception leaves main(): the process ends with a traceback.
Abort ==
    /\ pc' = "idle"
    /\ exit' = "error"
    /\ DropLocals

\* One pass of the loop over the sources (lines 239-260).  r1, r2 and feed
\* are what the network gives; a retry and a feed exist only when asked for.
NextSource ==
    /\ pc = "loop"
    /\ i <= Len(sources)
    /\ IF should_skip_by_state(state, sources[i], clock)
       THEN /\ n' = clock
            /\ requests' = 0
            /\ outcomes' = <<>>
            /\ entries' = <<>>
            /\ log' = <<"SKIP", sources[i]>>
            /\ i' = i + 1
            /\ UNCHANGED <<pc, exit, rules, sources, state, items, prev, nowt, alive>>
       ELSE \E r1 \in OutcomesOf(world, sources[i]) :
            \E r2 \in IF r1 = "Timeout" THEN OutcomesOf(world, sources[i]) ELSE {"ok"} :
            \E feed \in IF safe_request(r1, r2).ok THEN Feeds(world, sources[i])
                        ELSE {NoFeed} :
                LET url == sources[i]
                    res == fetch_feed(r1, r2, feed)
                IN  IF res.raised # ""
                    THEN Abort
                    ELSE /\ n' = clock
                         /\ requests' = res.requests
                         /\ outcomes' = SubSeq(<<r1, r2>>, 1, res.requests)
                         /\ entries' = res.entries
                         /\ IF res.err # ""
                            THEN /\ log' = <<"ERROR", url>>
                                 /\ state' = update_state_on_result(state, url, FALSE, res.err, clock)
                                 /\ items' = items
                            ELSE /\ log' = <<"FETCH", url>>
                                 /\ state' = update_state_on_result(state, url, TRUE, "", clock)
                                 /\ items' = items \o Admitted(url, res.entries, rules, clock)
                         /\ i' = i + 1
                         /\ UNCHANGED <<pc, exit, rules, sources, prev, nowt, alive>>
    /\ UNCHANGED <<world, clock, files>>

\* json.loads of the index, [] when it cannot be read (lines 268-273)
LoadPrev(doc) == IF doc.kind = "ok" THEN doc.val ELSE <<>>

\* main(), lines 262-283
Merge ==
    /\ pc = "loop"
    /\ i > Len(sources)
    /\ items' = Dedup(items)
    /\ prev' = LoadPrev(indexFile)
    /\ nowt' = clock
    /\ alive' = Reconcile(items', prev', rules, nowt')
    /\ pc' = "write_index"
    /\ UNCHANGED <<world, clock, files, exit, rules, sources, state, i, n, requests, log,
                   outcomes, entries>>

\* write_json(latest_idx, alive), line 290
WriteIndex ==
    /\ pc = "write_index"
    /\ indexFile' = Doc(alive)
    /\ pc' = "write_state"
    /\ UNCHANGED <<world, clock, stateFile, exit, locals>>

\* write_json(state_path, state), line 301; main() returns and the process ends
WriteState ==
    /\ pc = "write_state"
    /\ stateFile' = Doc(state)
    /\ pc' = "idle"
    /\ exit' = "ok"
    /\ DropLocals
    /\ UNCHANGED <<world, clock, indexFile>>

Next ==
    \/ Tick
    \/ StartRun
    \/ NextSource
    \/ Merge
    \/ WriteIndex
    \/ WriteState

Spec == Init /\ [][Next]_vars

\* A step of a started run.
RunStep == NextSource \/ Merge \/ WriteIndex \/ WriteState

\* A started run is a running process: it takes its next step.
FairSpec == Spec /\ WF_vars(RunStep)

\* ------------------------------------------------------------ the crashes
\* The process is killed at some point of a run.
Crash ==
    /\ pc # "idle"
    /\ pc' = "idle"
    /\ exit' = "killed"
    /\ DropLocals
    /\ UNCHANGED <<world, clock, files>>

\* Killed inside write_json(latest_idx, alive): write_text has opened the
\* file, which empties it, and not yet written all of the document.
CrashWritingIndex ==
    /\ pc = "write_index"
    /\ indexFile' = TornDoc
    /\ pc' = "idle"
    /\ exit' = "killed"
    /\ DropLocals
    /\ UNCHANGED <<world, clock, stateFile>>

\* Killed inside write_json(state_path, state).
CrashWritingState ==
    /\ pc = "write_state"
    /\ stateFile' = TornDoc
    /\ pc' = "idle"
    /\ exit' = "killed"
    /\ DropLocals
    /\ UNCHANGED <<world, clock, indexFile>>

\* json.loads(state_path.read_text()) raises on a document cut short (line 231)
StartRunFails ==
    /\ pc = "idle"
    /\ stateFile.kind = "torn"
    /\ exit # "error"
    /\ exit' = "error"
    /\ UNCHANGED <<world, clock, files, pc, locals>>

NextCrash ==
    \/ Next
    \/ Crash
    \/ CrashWritingIndex
    \/ CrashWritingState
    \/ StartRunFails

InitCrash == Init /\ world = "exact"

CrashSpec == InitCrash /\ [][NextCrash]_vars

\* ------------------------------------------------------------ the claims
Items(s) == {s[j] : j \in 1..Len(s)}

NoDuplicateIds(s) == \A j, k \in 1..Len(s) : j # k => s[j].id # s[k].id

\* dom equals d, or is some label(s), a dot, and d
DotSuffix(dom, d) ==
    \/ dom = d
    \/ \E k \in 1..Len(dom) : dom = SubSeq(dom, 1, k) \o <<".">> \o d

InPersistentSet(item, rs) ==
    \E d \in rs.persistent_domains : DotSuffix(item.source_domain, d)

Published(item) == item.published[1]

AtInstant(item, t) == [item EXCEPT !.published = <<t>>]

\* C1: an item leaves the rolling index only by expiring: every item of the
\* previous index that is not expired at the run's reconciliation clock has
\* its id in the index the run writes, whatever its source did this run.
C1_OnlyExpiryEvicts ==
    /\ pc = "write_index" =>
        \A x \in Items(LoadPrev(indexFile)) :
            ~is_expired(x, rules, nowt) => x.id \in Ids(alive)
    /\ pc = "write_state" =>
        /\ indexFile = Doc(alive)
        /\ \A x \in Items(prev) :
            ~is_expired(x, rules, nowt) => x.id \in Ids(indexFile.val)

\* An item of a source that was skipped as disabled, and that no source
\* returned this run, is in the index just written.
C1_Witness ==
    /\ pc = "write_state"
    /\ \E x \in Items(prev) :
        /\ ~is_expired(x, rules, nowt)
        /\ x.id \notin Ids(items)
        /\ x.source \in DOMAIN state
        /\ state[x.source].disabled_until # None
        /\ nowt < Parse(state[x.source].disabled_until)
        /\ stateFile = Doc(state)
        /\ x \in Items(indexFile.val)

\* C2: when a recorded failure brings consecutive_failures to 3,
\* disabled_until is the now of that failure plus 24 hours.
C2_ThirdFailureDisables ==
    [][\A u \in Urls :
        (/\ pc = "loop"
         /\ i' = i + 1
         /\ log' = <<"ERROR", u>>
         /\ state'[u].consecutive_failures = 3)
        => state'[u].disabled_until = <<n' + 24>>]_vars

C2_Witness ==
    /\ pc = "loop"
    /\ log # <<>>
    /\ log[1] = "ERROR"
    /\ state[log[2]].consecutive_failures = 3
    /\ state[log[2]].last_error[1] = n
    /\ state[log[2]].disabled_until = <<n + 24>>

\* C3: from any prior record, a recorded success sets last_success to now,
\* clears last_error, resets consecutive_failures and clears disabled_until.
C3_SuccessResets ==
    [][\A u \in Urls :
        (/\ pc = "loop"
         /\ i' = i + 1
         /\ log' = <<"FETCH", u>>)
        => state'[u] = [last_success |-> <<n'>>,
                        last_error |-> <<>>,
                        consecutive_failures |-> 0,
                        disabled_until |-> <<>>]]_vars

\* A success recorded for a source whose stored record was disabled.
C3_Witness ==
    /\ pc = "loop"
    /\ log # <<>>
    /\ log[1] = "FETCH"
    /\ stateFile.kind = "ok"
    /\ log[2] \in DOMAIN stateFile.val
    /\ stateFile.val[log[2]].consecutive_failures >= 3
    /\ stateFile.val[log[2]].disabled_until # <<>>
    /\ stateFile.val[log[2]].last_error # <<>>
    /\ state[log[2]].last_success = <<n>>
    /\ state[log[2]].consecutive_failures = 0
    /\ state[log[2]].disabled_until = <<>>

\* C4: a source is skipped, with no request made, exactly when its record
\* has disabled_until and now is strictly before it; otherwise (so also
\* once now has reached disabled_until) it is attempted.
C4_SkipIffCoolingDown ==
    [][(pc = "loop" /\ i' = i + 1) =>
        LET u == sources[i]
            cooling == /\ u \in DOMAIN state
                       /\ state[u].disabled_until # <<>>
                       /\ n' < state[u].disabled_until[1]
        IN  /\ (log' = <<"SKIP", u>>) <=> cooling
            /\ cooling => requests' = 0 /\ state' = state
            /\ ~cooling => requests' >= 1 /\ log' \in {<<"FETCH", u>>, <<"ERROR", u>>}]_vars

\* A source whose stored record is disabled is attempted again, now being
\* at or after disabled_until.
C4_Witness ==
    /\ pc = "loop"
    /\ log # <<>>
    /\ log[1] # "SKIP"
    /\ requests >= 1
    /\ stateFile.kind = "ok"
    /\ log[2] \in DOMAIN stateFile.val
    /\ stateFile.val[log[2]].disabled_until # <<>>
    /\ n >= stateFile.val[log[2]].disabled_until[1]

FirstWithId(s, id) ==
    s[CHOOSE j \in 1..Len(s) :
        /\ s[j].id = id
        /\ \A k \in 1..(j - 1) : s[k].id # id]

\* C5: of several candidates of one run with the same id, the one kept is
\* the first observed.
C5_FirstSeenWins ==
    [][(pc = "loop" /\ pc' = "write_index") =>
        \A x \in Items(items') : x = FirstWithId(items, x.id)]_vars

\* The terms the short tier is for ("closure", abbreviated).
UrgentKeywords == {<<"c", "l">>}

IsUrgent(item) == \E k \in UrgentKeywords : Contains(ItemText(item), k)

\* C6: a candidate of a non-persistent domain whose text matches an urgent
\* keyword and that was published more than 72 hours before the
\* reconciliation clock is not in the new index.
C6_UrgentShortTtl ==
    pc = "write_index" =>
        \A x \in Items(items) :
            (/\ ~InPersistentSet(x, rules)
             /\ IsUrgent(x)
             /\ nowt - Published(x) > 72)
            => x.id \notin Ids(alive)

\* C7: the rolling index holds no two items with the same id.
C7_UniqueIds ==
    /\ indexFile.kind = "ok" => NoDuplicateIds(indexFile.val)
    /\ pc \in {"write_index", "write_state"} => NoDuplicateIds(alive)

\* An index of two items written by a run that fetched an id twice and an
\* id the previous index already held.
C7_Witness ==
    /\ pc = "write_state"
    /\ Len(indexFile.val) >= 2
    /\ Ids(prev) \cap Ids(items) # {}
    /\ \E u \in Urls : state[u].last_success = <<n>>

\* C8: the durable index and the durable health table only ever change to
\* the complete document the run produced; no partial document is left.
C8_AtomicPersistence ==
    [][/\ indexFile' = indexFile \/ indexFile' = Doc(alive)
       /\ stateFile' = stateFile \/ stateFile' = Doc(state)]_vars

C9_Instants == {0 - 9600, 0 - 721, 0, 24, 9600}

\* C9: an item whose domain equals, or is a dot-boundary subdomain of, an
\* entry of the persistent set is expired for no published and no now, and
\* no run drops it from the index.
C9_PersistentNeverExpires ==
    pc = "write_index" =>
        \A x \in Items(items) \cup Items(prev) :
            InPersistentSet(x, rules) =>
                /\ \A p \in C9_Instants, t \in C9_Instants :
                    ~is_expired(AtInstant(x, p), rules, t)
                /\ x.id \in Ids(alive)

\* An item of a subdomain of a persistent domain, older than the TTL, is
\* carried forward.
C9_Witness ==
    /\ pc = "write_index"
    /\ \E x \in Items(prev) :
        /\ InPersistentSet(x, rules)
        /\ x.source_domain \notin rules.persistent_domains
        /\ nowt - Published(x) > 30 * 24
        /\ x.id \notin Ids(items)
        /\ x \in Items(alive)

\* C10: for a non-persistent item, one published exactly at now - ttl is
\* not expired and is kept; one published an instant earlier is expired
\* and is excluded.
C10_StrictBoundary ==
    pc = "write_index" =>
        \A x \in Items(items) \cup Items(prev) :
            ~InPersistentSet(x, rules) =>
                /\ ~is_expired(AtInstant(x, nowt - 30 * 24), rules, nowt)
                /\ is_expired(AtInstant(x, nowt - 30 * 24 - 1), rules, nowt)
                /\ Published(x) = nowt - 30 * 24 => x.id \in Ids(alive)
                /\ Published(x) = nowt - 30 * 24 - 1 => x \notin Items(alive)

C10_Witness ==
    /\ pc = "write_index"
    /\ \E x, y \in Items(items) :
        /\ ~InPersistentSet(x, rules)
        /\ ~InPersistentSet(y, rules)
        /\ Published(x) = nowt - 30 * 24
        /\ x \in Items(alive)
        /\ Published(y) = nowt - 30 * 24 - 1
        /\ y \notin Items(alive)

\* C11: reconciliation is idempotent: reconciling the result of a run's
\* reconciliation again, with no candidates, the same rules and the same
\* clock, gives the same set of items.
C11_ReconcileIdempotent ==
    pc = "write_index" =>
        Items(Reconcile(<<>>, alive, rules, nowt)) = Items(alive)

\* The reconciliation dropped an expired previous item and kept a candidate
\* and a previous item; done again on its result it keeps both.
C11_Witness ==
    /\ pc = "write_index"
    /\ \E x \in Items(prev) : is_expired(x, rules, nowt)
    /\ \E x \in Items(prev) : x.id \notin Ids(items) /\ x \in Items(alive)
    /\ \E x \in Items(items) : x \in Items(alive)
    /\ Reconcile(<<>>, alive, rules, nowt) = alive

\* C12: a fetch or parse error of a source does not interrupt the run: the
\* failure is recorded in the source's record and the loop goes on to the
\* next source; no step of a run ends it abnormally; and every started
\* run, whatever fails in it, gets through the list, reconciles, writes
\* the health table and ends normally.
C12_ErrorsDoNotInterrupt ==
    /\ [][\A u \in Urls :
            (pc = "loop" /\ log' = <<"ERROR", u>> /\ n' = clock /\ i' > i) =>
                /\ u = sources[i]
                /\ state'[u].last_error # <<>>
                /\ state'[u].last_error[1] = n'
                /\ state'[u].consecutive_failures =
                       (IF u \in DOMAIN state
                        THEN state[u].consecutive_failures ELSE 0) + 1
                /\ pc' = "loop" /\ i' = i + 1 /\ sources' = sources]_vars
    /\ [][exit = "running" => exit' \in {"running", "ok"}]_vars
    /\ (exit = "running") ~> (exit = "ok" /\ stateFile.kind = "ok")

\* A run in which the first source failed and a later one was fetched has
\* reconciled and written the index, and holds both records to write.
C12_Witness ==
    /\ pc = "write_state"
    /\ Len(sources) = 2
    /\ state[sources[1]].last_error # <<>>
    /\ state[sources[1]].last_error[1] = n
    /\ state[sources[2]].last_success = <<n>>
    /\ indexFile = Doc(alive)

\* text is a, then k, then b, for some a and b
HasSubstring(text, k) ==
    \E a \in 0..Len(text) : \E b \in 0..Len(text) :
        /\ a + Len(k) + b = Len(text)
        /\ text = SubSeq(text, 1, a) \o k \o SubSeq(text, Len(text) - b + 1, Len(text))

Blacklisted(item, rs) ==
    \E k \in rs.blacklist : HasSubstring(item.title \o <<" ">> \o item.summary, k)

Whitelisted(item, rs) ==
    \E k \in rs.whitelist : HasSubstring(item.title \o <<" ">> \o item.summary, k)

\* The items of the entries the last pass got.
Normalized == {normalize_entry(sources[i - 1], entries[j], n) : j \in 1..Len(entries)}

\* C13: an item whose title+summary text contains a blacklist keyword is
\* rejected, also when a whitelist keyword matches; with an empty whitelist
\* an item whose text contains no blacklist keyword is admitted.  So for
\* pass_filters, and so for what a fetched source adds to the candidates.
C13_BlacklistAlwaysRejects ==
    (pc = "loop" /\ log # <<>> /\ log[1] = "FETCH") =>
        \A x \in Normalized :
            /\ Blacklisted(x, rules) =>
                   ~pass_filters(x, rules) /\ x \notin Items(items)
            /\ (rules.whitelist = {} /\ ~Blacklisted(x, rules)) =>
                   pass_filters(x, rules) /\ x \in Items(items)

\* A fetched feed carried an entry matching a whitelist and a blacklist
\* keyword, which was rejected, and one matching the whitelist only.
C13_Witness ==
    /\ pc = "loop" /\ log # <<>> /\ log[1] = "FETCH"
    /\ \E x \in Normalized :
        /\ Whitelisted(x, rules) /\ Blacklisted(x, rules)
        /\ x \notin Items(items)
    /\ \E x \in Normalized :
        /\ Whitelisted(x, rules) /\ ~Blacklisted(x, rules)
        /\ x \in Items(items)

\* With no whitelist keyword and a blacklist, a fetched feed carried an
\* entry that was admitted and one that was rejected.
C13_WitnessEmptyWhitelist ==
    /\ pc = "loop" /\ log # <<>> /\ log[1] = "FETCH"
    /\ rules.whitelist = {} /\ rules.blacklist # {}
    /\ \E x \in Normalized : Blacklisted(x, rules) /\ x \notin Items(items)
    /\ \E x \in Normalized : ~Blacklisted(x, rules) /\ x \in Items(items)

\* The three rule files and the two source list files of the installation.
ConfigFiles(w) ==
    {RuleFilesOf(w)[1], RuleFilesOf(w)[2], RuleFilesOf(w)[3],
     CoreFileOf(w), SecondaryFileOf(w)}

\* C14: with a rule file or a source list file missing, a run fails at
\* startup: it never gets to the loop over the sources and never ends
\* normally.
C14_MissingConfigIsFatal ==
    (\E f \in ConfigFiles(world) : ~f.exists) =>
        /\ pc = "idle"
        /\ exit \in {"none", "error"}
        /\ indexFile = NoDoc

\* consecutive_failures of u in the health table the run loaded
PriorFailures(u) ==
    IF u \in DOMAIN LoadState(stateFile)
    THEN LoadState(stateFile)[u].consecutive_failures ELSE 0

\* C15: a run fetches a source at most once, so at no point of a run is a
\* source's consecutive_failures more than 1 above what the run loaded.
C15_OneFetchPerRun ==
    pc \in {"loop", "write_index", "write_state"} =>
        \A u \in DOMAIN state :
            state[u].consecutive_failures <= PriorFailures(u) + 1

\* C16: a pass of the loop issues at most two requests; a second one only
\* after the first timed out; and when the second fails too, one failure
\* is recorded for the source.
C16_OneRetryOnTimeout ==
    [][(pc = "loop" /\ i' = i + 1) =>
        LET u == sources[i]
            before == IF u \in DOMAIN state
                      THEN state[u].consecutive_failures ELSE 0
        IN  /\ requests' = Len(outcomes')
            /\ requests' <= 2
            /\ requests' = 2 => outcomes'[1] = "Timeout"
            /\ (requests' = 2 /\ outcomes'[2] # "ok") =>
                   /\ log' = <<"ERROR", u>>
                   /\ state'[u].consecutive_failures = before + 1
                   /\ state'[u].last_error = <<n', outcomes'[2]>>]_vars

\* The first request timed out, the retry failed, and one failure was
\* added to the record.
C16_Witness ==
    /\ pc = "loop"
    /\ requests = 2
    /\ outcomes[1] = "Timeout" /\ outcomes[2] \in {"Timeout", "HTTPError"}
    /\ log[1] = "ERROR"
    /\ PriorFailures(log[2]) = 1
    /\ state[log[2]].consecutive_failures = 2

\* Every record of a health table with disabled_until present has
\* consecutive_failures of 3 or more.
DisabledOnlyAtThreshold(table) ==
    \A u \in DOMAIN table :
        table[u].disabled_until # <<>> => table[u].consecutive_failures >= 3

\* C17: in every health table reached from the empty one by recorded
\* successes and failures, in memory or written, a record with
\* disabled_until present has consecutive_failures >= 3.
C17_DisabledImpliesThreshold ==
    /\ DisabledOnlyAtThreshold(state)
    /\ stateFile.kind = "ok" => DisabledOnlyAtThreshold(stateFile.val)

\* A record disabled at its third failure has failed again after the
\* cooldown and is disabled with four failures, beside a record that is
\* not disabled.
C17_Witness ==
    /\ pc = "loop"
    /\ stateFile.kind = "ok"
    /\ \E u \in DOMAIN state \cap DOMAIN stateFile.val :
        /\ stateFile.val[u].disabled_until # <<>>
        /\ stateFile.val[u].consecutive_failures = 3
        /\ state[u].disabled_until # <<>>
        /\ state[u].consecutive_failures = 4
    /\ \E u \in DOMAIN state :
        /\ state[u].disabled_until = <<>>
        /\ state[u].consecutive_failures \in {0, 1, 2}

\* Not of a persistent domain, and published more than 30 days before t.
Expired(item, rs, t) ==
    ~InPersistentSet(item, rs) /\ t - Published(item) > 30 * 24

\* C18: no item of the index a run writes is expired at the run's
\* reconciliation clock under the run's rules, be it a candidate of this
\* run or an item carried forward.
C18_IndexHoldsNoExpired ==
    /\ pc \in {"write_index", "write_state"} =>
           \A x \in Items(alive) : ~Expired(x, rules, nowt)
    /\ pc = "write_state" => indexFile = Doc(alive)

\* The written index holds an item carried forward, and leaves out an
\* expired candidate and an expired previous item.
C18_Witness ==
    /\ pc = "write_state"
    /\ \E x \in Items(prev) :
           x.id \notin Ids(items) /\ x \in Items(indexFile.val)
    /\ \E x \in Items(items) :
           Expired(x, rules, nowt) /\ x.id \notin Ids(indexFile.val)
    /\ \E x \in Items(prev) :
           Expired(x, rules, nowt) /\ x.id \notin Ids(indexFile.val)

\* C19: the end of a cooldown does not reset the streak: a failure of a
\* source that was disabled, attempted once disabled_until has passed,
\* takes consecutive_failures above 3 and disables the source until 24
\* hours after that failure; and only a recorded success lowers
\* consecutive_failures.
C19_StreakSurvivesCooldown ==
    [][(pc = "loop" /\ i' = i + 1) =>
        LET u == sources[i]
        IN  /\ (/\ log' = <<"ERROR", u>>
                /\ u \in DOMAIN state
                /\ state[u].disabled_until # <<>>) =>
                   /\ n' >= state[u].disabled_until[1]
                   /\ state'[u].consecutive_failures =
                          state[u].consecutive_failures + 1
                   /\ state'[u].consecutive_failures > 3
                   /\ state'[u].disabled_until = <<n' + 24>>
            /\ \A v \in DOMAIN state :
                   state'[v].consecutive_failures < state[v].consecutive_failures
                       => log' = <<"FETCH", v>>]_vars

\* A source disabled at its third failure failed again after the cooldown:
\* four failures, disabled until 24 hours after the fourth.
C19_Witness ==
    /\ pc = "loop"
    /\ log # <<>> /\ log[1] = "ERROR"
    /\ stateFile.kind = "ok"
    /\ log[2] \in DOMAIN stateFile.val
    /\ stateFile.val[log[2]].consecutive_failures = 3
    /\ stateFile.val[log[2]].disabled_until # <<>>
    /\ n >= stateFile.val[log[2]].disabled_until[1]
    /\ state[log[2]].consecutive_failures = 4
    /\ state[log[2]].disabled_until = <<n + 24>>

\* C20: at every point of a run, the record of a source the run has just
\* skipped because of cooldown, and the record of every source that is
\* not in the run's source list, is the record the run loaded.
C20_SkippedAndUnlistedUnchanged ==
    pc \in {"loop", "write_index", "write_state"} =>
        /\ \A u \in DOMAIN LoadState(stateFile) :
               u \notin Items(sources) =>
                   u \in DOMAIN state /\ state[u] = LoadState(stateFile)[u]
        /\ (log # <<>> /\ log[1] = "SKIP") =>
               /\ log[2] \in DOMAIN LoadState(stateFile)
               /\ state[log[2]] = LoadState(stateFile)[log[2]]
====
